---- MODULE Spec2Model ----
(***************************************************************************)
(* Model of src/app/page.tsx (Skypro.Wallet expense table): the Home       *)
(* component's hook state, its persistence effects, the filter/sort        *)
(* projection, the add / delete / save handlers and the Row editor.        *)
(*                                                                         *)
(* Texts are sequences of one-character strings.  Category labels are      *)
(* transliterated to ASCII.  Amounts are exact decimals counted in units   *)
(* of 10^-FracDigits of a ruble; the binary floating point error of        *)
(* parsedAmount * 100 is outside the model.                                *)
(***************************************************************************)
EXTENDS Integers, Sequences, FiniteSets, TLC

\* ------------------------------------------------------------------ bounds
\* Number of ids crypto.randomUUID() hands out in one behaviour.
MaxIds == 2
\* Number of records in a collection the page is started on.
MaxRows == 3
\* Decimal places the amount arithmetic resolves (Unit sub-units per ruble).
FracDigits == 3

RECURSIVE Pow10(_)
Pow10(n) == IF n = 0 THEN 1 ELSE 10 * Pow10(n - 1)

Unit == Pow10(FracDigits)

\* ------------------------------------------------------------------- texts
WhiteSpace == {" "}
Digits == {"0", "1", "2", "3", "4", "5", "6", "7", "8", "9"}
DigitVal(c) == CASE c = "0" -> 0 [] c = "1" -> 1 [] c = "2" -> 2 [] c = "3" -> 3
                 [] c = "4" -> 4 [] c = "5" -> 5 [] c = "6" -> 6 [] c = "7" -> 7
                 [] c = "8" -> 8 [] c = "9" -> 9

IsWs(c) == c \in WhiteSpace
NotWs(c) == c \notin WhiteSpace

\* String.prototype.trim
RECURSIVE TrimStart(_)
TrimStart(s) == IF s # <<>> /\ IsWs(Head(s)) THEN TrimStart(Tail(s)) ELSE s
RECURSIVE TrimEnd(_)
TrimEnd(s) == IF s # <<>> /\ IsWs(s[Len(s)]) THEN TrimEnd(SubSeq(s, 1, Len(s) - 1)) ELSE s
Trim(s) == TrimEnd(TrimStart(s))

\* .replace(/\s+/g, "")
StripWs(s) == SelectSeq(s, NotWs)

\* .replace(",", "."): a string pattern replaces the first occurrence only
ReplaceFirstComma(s) ==
    IF \E i \in 1..Len(s) : s[i] = ","
    THEN LET i == CHOOSE j \in 1..Len(s) : s[j] = "," /\ \A k \in 1..(j - 1) : s[k] # ","
         IN  [k \in 1..Len(s) |-> IF k = i THEN "." ELSE s[k]]
    ELSE s

\* ----------------------------------------------------------------- numbers
\* A JavaScript number: finite (v sub-units), +-Infinity (v the sign) or NaN;
\* JsNull is the JSON null a non-finite number is stringified to.
Fin(n) == [k |-> "fin", v |-> n]
Inf(sign) == [k |-> "inf", v |-> sign]
NaN == [k |-> "nan", v |-> 0]
JsNull == [k |-> "null", v |-> 0]

InfinityWord == <<"I", "n", "f", "i", "n", "i", "t", "y">>

RECURSIVE DigitsVal(_)
DigitsVal(s) == IF s = <<>> THEN 0 ELSE 10 * DigitsVal(SubSeq(s, 1, Len(s) - 1)) + DigitVal(s[Len(s)])

AllDigits(s) == \A i \in 1..Len(s) : s[i] \in Digits

\* StrUnsignedDecimalLiteral without exponent: digits [. digits] | . digits
UnsignedDecimal(s) ==
    IF \E i \in 1..Len(s) : s[i] = "."
    THEN LET i == CHOOSE j \in 1..Len(s) : s[j] = "." /\ \A k \in 1..(j - 1) : s[k] # "."
             ip == SubSeq(s, 1, i - 1)
             fp == SubSeq(s, i + 1, Len(s))
             fk == SubSeq(fp, 1, IF Len(fp) < FracDigits THEN Len(fp) ELSE FracDigits)
         IN  IF AllDigits(ip) /\ AllDigits(fp) /\ Len(ip) + Len(fp) > 0
             THEN Fin(DigitsVal(ip) * Unit + DigitsVal(fk) * Pow10(FracDigits - Len(fk)))
             ELSE NaN
    ELSE IF s # <<>> /\ AllDigits(s) THEN Fin(DigitsVal(s) * Unit) ELSE NaN

Negate(x) == IF x.k = "nan" THEN x ELSE [x EXCEPT !.v = 0 - x.v]

\* Number(string) on texts without exponent or radix prefix
ToNumber(s) ==
    LET t == Trim(s)
        signed == t # <<>> /\ Head(t) \in {"+", "-"}
        body == IF signed THEN Tail(t) ELSE t
        mag == IF body = InfinityWord THEN Inf(1) ELSE UnsignedDecimal(body)
    IN  IF t = <<>> THEN Fin(0)
        ELSE IF signed /\ Head(t) = "-" THEN Negate(mag) ELSE mag

\* Number(String(amount).replace(/\s+/g, "").replace(",", "."))
ParseAmount(s) == ToNumber(ReplaceFirstComma(StripWs(s)))

IsNaN(x) == x.k = "nan"
\* x <= 0 (false for NaN)
LeqZero(x) == \/ x.k = "fin" /\ x.v <= 0
              \/ x.k = "inf" /\ x.v < 0

\* Math.floor in place of Math.round
Round2Floor(x) ==
    IF x.k = "fin" THEN Fin(((x.v * 100) \div Unit) * (Unit \div 100)) ELSE x

\* Math.round(x * 100) / 100: Math.round is floor(x + 0.5)
Round2(x) ==
    IF x.k = "fin"
    THEN Fin((((x.v * 100) + (Unit \div 2)) \div Unit) * (Unit \div 100))
    ELSE x

\* x || 0 on a number: NaN and 0 are falsy
OrZero(x) == IF x.k = "nan" THEN Fin(0) ELSE x

\* -------------------------------------------------------------- data model
CATEGORIES == {"Eda", "Transport", "Zhilyo", "Razvlecheniya", "Obrazovanie", "Drugoe"}
DefaultCategory == "Eda"
All == "Vse"
SortKeys == {"date", "amount", "description"}
NoId == 0

Expense(i, d, c, dt, a) ==
    [id |-> i, description |-> d, category |-> c, date |-> dt, amount |-> a]

\* new Date().toISOString().slice(0, 10): one fixed day
Today == <<"2", "0", "2", "4", "-", "0", "1", "-", "0", "5">>

\* --------------------------------------------------------------- comparing
Sign(n) == IF n < 0 THEN -1 ELSE IF n > 0 THEN 1 ELSE 0

\* Collation weights of the characters the inputs use: punctuation and space
\* before digits before letters; case is a tertiary difference, lower first.
Primary(c) == CASE c = " " -> 0 [] c = "-" -> 1
                [] c \in Digits -> 2 + DigitVal(c)
                [] c \in {"a", "A"} -> 20 [] c \in {"b", "B"} -> 21
                [] OTHER -> 30
Tertiary(c) == IF c \in {"A", "B"} THEN 1 ELSE 0

RECURSIVE LexCmp(_, _)
LexCmp(a, b) ==
    IF a = <<>> /\ b = <<>> THEN 0
    ELSE IF a = <<>> THEN -1
    ELSE IF b = <<>> THEN 1
    ELSE IF Head(a) # Head(b) THEN Sign(Head(a) - Head(b))
    ELSE LexCmp(Tail(a), Tail(b))

PrimaryKey(s) == [i \in 1..Len(s) |-> Primary(s[i])]
TertiaryKey(s) == [i \in 1..Len(s) |-> Tertiary(s[i])]

\* String.prototype.localeCompare: primary weights first, then case
LocaleCompare(a, b) ==
    IF LexCmp(PrimaryKey(a), PrimaryKey(b)) # 0
    THEN LexCmp(PrimaryKey(a), PrimaryKey(b))
    ELSE LexCmp(TertiaryKey(a), TertiaryKey(b))

\* ToNumber of a stored amount: null converts to 0
NumVal(x) == IF x.k = "null" THEN Fin(0) ELSE x

\* a - b on numbers
Sub(a, b) ==
    LET x == NumVal(a)
        y == NumVal(b)
    IN  IF x.k = "nan" \/ y.k = "nan" THEN NaN
        ELSE IF x.k = "inf" /\ y.k = "inf" THEN (IF x.v = y.v THEN NaN ELSE x)
        ELSE IF x.k = "inf" THEN x
        ELSE IF y.k = "inf" THEN Negate(y)
        ELSE Fin(x.v - y.v)

\* The comparator handed to sort, lines 72-78
Comparator(a, b, key, dir) ==
    LET cmp == CASE key = "date" -> Fin(LocaleCompare(a.date, b.date))
                 [] key = "amount" -> Sub(a.amount, b.amount)
                 [] key = "description" -> Fin(LocaleCompare(a.description, b.description))
    IN  IF dir = "asc" THEN cmp ELSE Negate(cmp)

\* What sort makes of a comparator result: NaN counts as +0
SortOrder(v) == IF v.k = "nan" THEN 0 ELSE Sign(v.v)

\* An unstable sort: insertion before the elements that tie with e
RECURSIVE InsertSortedUnstable(_, _, _, _)
InsertSortedUnstable(sorted, e, key, dir) ==
    IF sorted # <<>> /\ SortOrder(Comparator(sorted[Len(sorted)], e, key, dir)) >= 0
    THEN Append(InsertSortedUnstable(SubSeq(sorted, 1, Len(sorted) - 1), e, key, dir),
                sorted[Len(sorted)])
    ELSE Append(sorted, e)

\* Array.prototype.sort is stable: insertion behind the last element that
\* does not sort after x
RECURSIVE InsertSorted(_, _, _, _)
InsertSorted(sorted, e, key, dir) ==
    IF sorted # <<>> /\ SortOrder(Comparator(sorted[Len(sorted)], e, key, dir)) > 0
    THEN Append(InsertSorted(SubSeq(sorted, 1, Len(sorted) - 1), e, key, dir), sorted[Len(sorted)])
    ELSE Append(sorted, e)

RECURSIVE SortBy(_, _, _)
SortBy(s, key, dir) ==
    IF s = <<>> THEN <<>>
    ELSE InsertSorted(SortBy(SubSeq(s, 1, Len(s) - 1), key, dir), s[Len(s)], key, dir)

\* expenses.filter((e) => e.category === filterCategory), or expenses itself
ByCategory(coll, filter) ==
    IF filter = All THEN coll
    ELSE LET Keep(e) == e.category = filter IN SelectSeq(coll, Keep)

\* The render of Home: the memoised projection, and the collection it was
\* computed from ([...byCategory] sorts a copy, so the state is not touched)
Project(coll, filter, key, dir) ==
    [expenses |-> coll, view |-> SortBy(ByCategory(coll, filter), key, dir)]

\* ------------------------------------------------------------- persistence
\* The slot "wallet.expenses": absent, a text that is no JSON, the empty
\* text, or the JSON text of an array (held as the value it denotes).
Missing == [k |-> "missing", v |-> <<>>]
Garbage == [k |-> "garbage", v |-> <<>>]
EmptyText == [k |-> "empty", v |-> <<>>]
Json(v) == [k |-> "json", v |-> v]

\* JSON.stringify writes a non-finite number as null
JsonAmount(x) == IF x.k \in {"inf", "nan"} THEN JsNull ELSE x
JsonRecord(e) == [e EXCEPT !.amount = JsonAmount(e.amount)]

\* JSON.stringify(expenses)
Serialize(coll) == Json([i \in 1..Len(coll) |-> JsonRecord(coll[i])])

\* JSON.parse of the slot's text, where it is the text of an array
JsonParse(raw) == raw.v

\* A write that removes the slot when the collection is empty
WriteEffectNonEmpty(coll) == IF coll = <<>> THEN Missing ELSE Serialize(coll)

\* localStorage.setItem("wallet.expenses", JSON.stringify(expenses))
WriteEffect(coll) == Serialize(coll)

\* ------------------------------------------------------------------- state
VARIABLES
    expenses,        \* useState<Expense[]>
    description,     \* the form's fields
    category,
    date,
    amount,
    filterCategory,
    sortKey,
    sortDir,
    editingId,       \* NoId for null
    isCatMenuOpen,
    isSortMenuOpen,
    filteredSorted,  \* the useMemo value of the last render
    local,           \* Row's useState: mounted row id -> working copy
    storage,         \* localStorage["wallet.expenses"]
    pc,              \* where the component is in its life
    pending,         \* the setExpenses queued by the load effect
    nextId,          \* ids handed out so far, plus one
    boot,            \* what the process started from, until its first mutation
    last             \* the event handled last, with the record it was given

vars == <<expenses, description, category, date, amount, filterCategory, sortKey,
          sortDir, editingId, isCatMenuOpen, isSortMenuOpen, filteredSorted, local,
          storage, pc, pending, nextId, boot, last>>

form == <<description, category, date, amount>>
selection == <<filterCategory, sortKey, sortDir>>
menus == <<isCatMenuOpen, isSortMenuOpen>>
store == <<expenses, filteredSorted, local, storage>>

Event(op, id) == [op |-> op, id |-> id, rec |-> <<>>]
\* boot.slot is the slot as the process found it, boot.coll the collection the
\* previous run ended with; both are forgotten at the first mutation
Boot(slot, coll) == [slot |-> slot, coll |-> coll]
NoBoot == Boot([k |-> "missing", v |-> <<>>], <<>>)
NoPending == [set |-> FALSE, v |-> <<>>]

RowIds(view) == {view[i].id : i \in 1..Len(view)}
RowOf(view, id) == view[CHOOSE i \in 1..Len(view) : view[i].id = id]
Has(coll, id) == \E i \in 1..Len(coll) : coll[i].id = id

\* Row's state after a render: a row that mounts starts from its expense
\* (line 322); a mounted row takes its expense again when the expense object
\* changed (line 325); a row left out of the projection is unmounted.
RowState(view, old, changed) ==
    [id \in RowIds(view) |->
        IF id \in DOMAIN old /\ id \notin changed THEN old[id] ELSE RowOf(view, id)]

\* A render of Home with the given collection and selection
Render(coll, filter, key, dir, changed) ==
    LET p == Project(coll, filter, key, dir)
    IN  /\ expenses' = p.expenses
        /\ filteredSorted' = p.view
        /\ local' = RowState(p.view, local, changed)

\* A render after setExpenses, and the write effect it triggers
Commit(coll, changed) ==
    /\ Render(coll, filterCategory, sortKey, sortDir, changed)
    /\ storage' = WriteEffect(expenses')
    /\ boot' = NoBoot

\* onDocClick, lines 59-65: a click outside a menu closes it
OnDocClick(inCat, inSort, cat, sort) ==
    /\ isCatMenuOpen' = (IF inCat THEN cat ELSE FALSE)
    /\ isSortMenuOpen' = (IF inSort THEN sort ELSE FALSE)

\* --------------------------------------------------------- process start
\* Construction: the first render, before any effect has run
Fresh ==
    /\ expenses = <<>>
    /\ description = <<>>
    /\ category = DefaultCategory
    /\ date = Today
    /\ amount = <<>>
    /\ filterCategory = All
    /\ sortKey = "date"
    /\ sortDir = "desc"
    /\ editingId = NoId
    /\ isCatMenuOpen = FALSE
    /\ isSortMenuOpen = FALSE
    /\ filteredSorted = <<>>
    /\ local = <<>>
    /\ pc = "mounted"
    /\ pending = NoPending

\* The process starts on the slot as it finds it; prev is the collection the
\* previous run ended with, if there was one
Started(slot, prev) ==
    /\ Fresh
    /\ storage = slot
    /\ boot = Boot(slot, prev)
    /\ nextId = Len(prev) + 1
    /\ last = Event("start", NoId)

\* The load effect, lines 44-51
LoadEffect ==
    /\ pc = "mounted"
    /\ pending' = (IF storage.k = "json" THEN [set |-> TRUE, v |-> JsonParse(storage)]
                   ELSE pending)
    /\ pc' = "loaded"
    /\ last' = Event("load", NoId)
    /\ UNCHANGED <<form, selection, menus, store, editingId, nextId, boot>>

\* The write effect of the first render, lines 53-55
MountWriteEffect ==
    /\ pc = "loaded"
    /\ storage' = WriteEffect(expenses)
    /\ pc' = "written"
    /\ last' = Event("mountWrite", NoId)
    /\ UNCHANGED <<form, selection, menus, expenses, filteredSorted, local, editingId,
                   nextId, boot, pending>>

\* The render the queued setExpenses causes
Rerender ==
    /\ pc = "written"
    /\ pending.set
    /\ Render(pending.v, filterCategory, sortKey, sortDir, {})
    /\ pending' = NoPending
    /\ pc' = "rerendered"
    /\ last' = Event("rerender", NoId)
    /\ UNCHANGED <<form, selection, menus, storage, editingId, nextId, boot>>

\* ... and the write effect that follows it, since expenses changed
RerenderWriteEffect ==
    /\ pc = "rerendered"
    /\ storage' = WriteEffect(expenses)
    /\ pc' = "ready"
    /\ last' = Event("loadedWrite", NoId)
    /\ UNCHANGED <<form, selection, menus, expenses, filteredSorted, local, editingId,
                   nextId, boot, pending>>

\* Nothing was loaded: the mount is complete
Settle ==
    /\ pc = "written"
    /\ ~pending.set
    /\ pc' = "ready"
    /\ last' = Event("settle", NoId)
    /\ UNCHANGED <<form, selection, menus, store, editingId, nextId, boot, pending>>

\* The page is loaded again: the state is constructed anew, the slot stays
Restart ==
    /\ pc = "ready"
    /\ expenses' = <<>>
    /\ description' = <<>>
    /\ category' = DefaultCategory
    /\ date' = Today
    /\ amount' = <<>>
    /\ filterCategory' = All
    /\ sortKey' = "date"
    /\ sortDir' = "desc"
    /\ editingId' = NoId
    /\ isCatMenuOpen' = FALSE
    /\ isSortMenuOpen' = FALSE
    /\ filteredSorted' = <<>>
    /\ local' = <<>>
    /\ pc' = "mounted"
    /\ pending' = NoPending
    /\ boot' = Boot(storage, expenses)
    /\ last' = Event("start", NoId)
    /\ UNCHANGED <<storage, nextId>>

\* ------------------------------------------------------------ the form
Ready == pc = "ready"

SetDescription(v) ==
    /\ Ready
    /\ description' = v
    /\ last' = Event("change", NoId)
    /\ UNCHANGED <<category, date, amount, selection, menus, store, editingId, pc,
                   pending, nextId, boot>>

\* A category button of the form is clicked
SetCategory(c) ==
    /\ Ready
    /\ category' = c
    /\ OnDocClick(FALSE, FALSE, isCatMenuOpen, isSortMenuOpen)
    /\ last' = Event("setCategory", NoId)
    /\ UNCHANGED <<description, date, amount, selection, store, editingId, pc, pending,
                   nextId, boot>>

SetDate(v) ==
    /\ Ready
    /\ date' = v
    /\ last' = Event("change", NoId)
    /\ UNCHANGED <<description, category, amount, selection, menus, store, editingId, pc,
                   pending, nextId, boot>>

SetAmount(v) ==
    /\ Ready
    /\ amount' = v
    /\ last' = Event("change", NoId)
    /\ UNCHANGED <<description, category, date, selection, menus, store, editingId, pc,
                   pending, nextId, boot>>

\* The guard without its Number.isNaN test
AddRejectedNoNaN(desc, dt, parsedAmount) ==
    \/ Trim(desc) = <<>>
    \/ dt = <<>>
    \/ LeqZero(parsedAmount)

\* The guard of handleAdd, line 91
AddRejected(desc, dt, parsedAmount) ==
    \/ Trim(desc) = <<>>
    \/ dt = <<>>
    \/ IsNaN(parsedAmount)
    \/ LeqZero(parsedAmount)

\* The record handleAdd builds, lines 92-98
NewExpense(id, desc, cat, dt, parsedAmount) ==
    Expense(id, Trim(desc), cat, dt, Round2(parsedAmount))

\* setExpenses((prev) => [next, ...prev])
Prepend(next, prev) == <<next>> \o prev

\* handleAdd, lines 89-101, on a click of the add button
HandleAdd ==
    LET parsedAmount == ParseAmount(amount)
    IN  /\ Ready
        /\ OnDocClick(FALSE, FALSE, isCatMenuOpen, isSortMenuOpen)
        /\ last' = Event("add", NoId)
        /\ IF AddRejected(description, date, parsedAmount)
           THEN UNCHANGED <<form, store, nextId, boot>>
           ELSE /\ nextId <= MaxIds
                /\ Commit(Prepend(NewExpense(nextId, description, category, date,
                                             parsedAmount), expenses), {})
                /\ nextId' = nextId + 1
                \* resetForm, lines 82-87
                /\ description' = <<>>
                /\ category' = DefaultCategory
                /\ date' = Today
                /\ amount' = <<>>
        /\ UNCHANGED <<selection, editingId, pc, pending>>

\* ------------------------------------------------------- delete and save
\* The filter with > for !==
DeleteFromGreater(prev, id) == LET Keep(e) == e.id > id IN SelectSeq(prev, Keep)

\* prev.filter((e) => e.id !== id)
DeleteFrom(prev, id) == LET Keep(e) == e.id # id IN SelectSeq(prev, Keep)

\* handleDelete, lines 103-105, on a click of a row's delete button
HandleDelete(id) ==
    /\ Ready
    /\ Commit(DeleteFrom(expenses, id), {})
    /\ OnDocClick(FALSE, FALSE, isCatMenuOpen, isSortMenuOpen)
    /\ last' = Event("delete", id)
    /\ UNCHANGED <<form, selection, editingId, pc, pending, nextId>>

\* startEdit, lines 107-109, on a click of a row's edit button
StartEdit(id) ==
    /\ Ready
    /\ editingId' = id
    /\ OnDocClick(FALSE, FALSE, isCatMenuOpen, isSortMenuOpen)
    /\ last' = Event("startEdit", id)
    /\ UNCHANGED <<form, selection, store, pc, pending, nextId, boot>>

\* The map patching two fields of the old record in place of replacing it
ReplaceInMerged(prev, updated) ==
    [i \in 1..Len(prev) |->
        IF prev[i].id = updated.id
        THEN [prev[i] EXCEPT !.description = updated.description, !.amount = updated.amount]
        ELSE prev[i]]

\* prev.map((e) => (e.id === updated.id ? updated : e))
ReplaceIn(prev, updated) ==
    [i \in 1..Len(prev) |-> IF prev[i].id = updated.id THEN updated ELSE prev[i]]

\* saveEdit, lines 111-114
SaveEdit(updated, op) ==
    /\ Ready
    /\ Commit(ReplaceIn(expenses, updated), {updated.id})
    /\ editingId' = NoId
    /\ last' = [op |-> op, id |-> updated.id, rec |-> <<updated>>]
    /\ UNCHANGED <<form, selection, menus, pc, pending, nextId>>

\* ---------------------------------------------------------- the Row editor
\* The row is mounted and rendered with isEditing
IsEditing(id) == id # NoId /\ editingId = id /\ id \in DOMAIN local
\* The row is mounted and shows its edit and delete buttons
IsViewing(id) == id \in DOMAIN local /\ editingId # id

SetLocal(id, rec, op) ==
    /\ Ready
    /\ IsEditing(id)
    /\ local' = [local EXCEPT ![id] = rec]
    /\ last' = Event(op, id)
    /\ UNCHANGED <<form, selection, menus, expenses, filteredSorted, storage, editingId,
                   pc, pending, nextId, boot>>

\* The onChange handlers of the row's fields, lines 353, 365, 384, 397-399
EditDescription(id, v) == SetLocal(id, [local[id] EXCEPT !.description = v], "editDescription")
EditCategory(id, c) == SetLocal(id, [local[id] EXCEPT !.category = c], "editCategory")
EditDate(id, v) == SetLocal(id, [local[id] EXCEPT !.date = v], "editDate")
EditAmount(id, v) == SetLocal(id, [local[id] EXCEPT !.amount = OrZero(ParseAmount(v))], "editAmount")

\* handleKeyDown, lines 340-344, with the Enter key
KeyDownEnter(id) == IsEditing(id) /\ SaveEdit(local[id], "enter")

\* handleClick, lines 330-335: a mousedown whose target is outside the row
MouseDownOutside(id) == IsEditing(id) /\ SaveEdit(local[id], "mousedown")

\* ----------------------------------------------------------------- menus
ToggleCatMenu ==
    /\ Ready
    /\ OnDocClick(TRUE, FALSE, ~isCatMenuOpen, isSortMenuOpen)
    /\ last' = Event("toggleCatMenu", NoId)
    /\ UNCHANGED <<form, selection, store, editingId, pc, pending, nextId, boot>>

ToggleSortMenu ==
    /\ Ready
    /\ OnDocClick(FALSE, TRUE, isCatMenuOpen, ~isSortMenuOpen)
    /\ last' = Event("toggleSortMenu", NoId)
    /\ UNCHANGED <<form, selection, store, editingId, pc, pending, nextId, boot>>

\* A change of the selection renders Home again; expenses is no dependency
\* of the write effect's run then
Select(filter, key, dir, inCat, inSort, op) ==
    /\ Ready
    /\ filterCategory' = filter
    /\ sortKey' = key
    /\ sortDir' = dir
    /\ Render(expenses, filter, key, dir, {})
    /\ OnDocClick(inCat, inSort, isCatMenuOpen, isSortMenuOpen)
    /\ last' = Event(op, NoId)
    /\ UNCHANGED <<form, storage, editingId, pc, pending, nextId, boot>>

\* The items of the two menus, lines 152-158 and 177-189
SetFilterCategory(f) ==
    isCatMenuOpen /\ Select(f, sortKey, sortDir, TRUE, FALSE, "setFilterCategory")
SetSortKey(k) ==
    isSortMenuOpen /\ Select(filterCategory, k, sortDir, FALSE, TRUE, "setSortKey")
ToggleSortDir ==
    isSortMenuOpen /\ Select(filterCategory, sortKey, IF sortDir = "asc" THEN "desc" ELSE "asc",
                             FALSE, TRUE, "toggleSortDir")

\* A click that lands on no control
ClickElsewhere ==
    /\ Ready
    /\ isCatMenuOpen \/ isSortMenuOpen
    /\ OnDocClick(FALSE, FALSE, isCatMenuOpen, isSortMenuOpen)
    /\ last' = Event("click", NoId)
    /\ UNCHANGED <<form, selection, store, editingId, pc, pending, nextId, boot>>

\* ---------------------------------------------------------------- inputs
T_a == <<"a">>
T_A == <<"A">>
T_b_padded == <<" ", "b", " ">>
Blank == <<" ">>
Day1 == Today
Day2 == <<"2", "0", "2", "4", "-", "0", "1", "-", "1", "0">>
A_1c5 == <<"1", ",", "5">>
A_199c5 == <<"1", "9", "9", ",", "5">>
A_0p004 == <<"0", ".", "0", "0", "4">>
A_0p005 == <<"0", ".", "0", "0", "5">>
A_1s000 == <<"1", " ", "0", "0", "0">>
A_1c5c5 == <<"1", ",", "5", ",", "5">>
A_abc == <<"a", "b", "c">>
A_0 == <<"0">>
A_m5 == <<"-", "5">>

\* A state of the mounted page holding coll, as the adds and edits of a run
\* leave it
Loaded(coll) ==
    /\ expenses = coll
    /\ description = <<>>
    /\ category = DefaultCategory
    /\ date = Today
    /\ amount = <<>>
    /\ filterCategory = All
    /\ sortKey = "date"
    /\ sortDir = "desc"
    /\ editingId = NoId
    /\ isCatMenuOpen = FALSE
    /\ isSortMenuOpen = FALSE
    /\ filteredSorted = Project(coll, All, "date", "desc").view
    /\ local = RowState(filteredSorted, <<>>, {})
    /\ storage = Serialize(coll)
    /\ pc = "ready"
    /\ pending = NoPending
    /\ nextId = Len(coll) + 1
    /\ boot = NoBoot
    /\ last = Event("start", NoId)

\* The collections of at most n records with the given field values; the
\* newest record is first and has the greatest id
Value(d, c, dt, a) == [d |-> d, c |-> c, dt |-> dt, a |-> a]
WithIds(vals) ==
    [i \in 1..Len(vals) |->
        Expense(Len(vals) - i + 1, vals[i].d, vals[i].c, vals[i].dt, vals[i].a)]
Collections(pool, n) == {WithIds(vals) : vals \in UNION {[1..k -> pool] : k \in 0..n}}

Startup == LoadEffect \/ MountWriteEffect \/ Rerender \/ RerenderWriteEffect \/ Settle

\* ----------------------------------------------------- the page, one run
BootPool == {Value(T_a, "Transport", Day2, ParseAmount(A_1c5))}

\* A first run finds no slot, or one that is no JSON; a later run finds what
\* the run before it wrote
Init ==
    \/ \E slot \in {Missing, Garbage, EmptyText} : Started(slot, <<>>)
    \/ \E prev \in Collections(BootPool, 1) : Started(Serialize(prev), prev)

Next ==
    \/ Startup
    \/ SetDescription(T_a)
    \/ SetAmount(InfinityWord)
    \/ HandleAdd
    \/ \E id \in DOMAIN local : IsViewing(id) /\ HandleDelete(id)
    \/ \E id \in DOMAIN local : IsViewing(id) /\ StartEdit(id)
    \/ \E id \in DOMAIN local : EditAmount(id, A_abc)
    \/ \E id \in DOMAIN local : KeyDownEnter(id)
    \/ \E id \in DOMAIN local : MouseDownOutside(id)
    \/ ToggleCatMenu
    \/ ToggleSortMenu
    \/ \E f \in {All, "Eda"} : SetFilterCategory(f)
    \/ ToggleSortDir
    \/ ClickElsewhere

Spec == Init /\ [][Next]_vars

\* ------------------------------------------ the page, through restarts
NextBoot ==
    \/ Startup
    \/ Restart
    \/ SetDescription(T_a)
    \/ \E v \in {A_1c5, InfinityWord} : SetAmount(v)
    \/ HandleAdd
    \/ \E id \in DOMAIN local : IsViewing(id) /\ HandleDelete(id)
    \/ \E id \in DOMAIN local : IsViewing(id) /\ StartEdit(id)
    \/ \E id \in DOMAIN local : EditAmount(id, A_abc)
    \/ \E id \in DOMAIN local : KeyDownEnter(id)

SpecBoot == Init /\ [][NextBoot]_vars

\* --------------------------------------------------------- the add form
FormDescriptions == {<<>>, Blank, T_b_padded}
FormCategories == {"Eda", "Transport"}
FormDates == {<<>>, Day1}
FormAmounts == {<<>>, A_abc, A_0, A_m5, A_199c5, A_0p004, A_0p005, A_1s000, A_1c5c5,
                InfinityWord}

NextAdd ==
    \/ Startup
    \/ \E v \in FormDescriptions : SetDescription(v)
    \/ \E c \in FormCategories : SetCategory(c)
    \/ \E v \in FormDates : SetDate(v)
    \/ \E v \in FormAmounts : SetAmount(v)
    \/ HandleAdd

SpecAdd == Init /\ [][NextAdd]_vars

\* ------------------------------------------------ the store's operations
StorePool == {Value(T_a, "Eda", Day1, ParseAmount(A_1c5)),
              Value(T_A, "Transport", Day2, ParseAmount(A_0p004))}
SaveDescriptions == {<<>>, T_A}
SaveRecords == {Expense(i, d, "Drugoe", Day2, Fin(0)) :
                    i \in 1..MaxRows, d \in SaveDescriptions}

InitStore == \E coll \in Collections(StorePool, MaxRows) : Loaded(coll)

NextStore ==
    \/ \E id \in 1..MaxRows : HandleDelete(id)
    \/ \E updated \in SaveRecords : SaveEdit(updated, "save")

SpecStore == InitStore /\ [][NextStore]_vars

\* --------------------------------------------------------- the projection
ViewPool == {Value(T_a, "Eda", Day1, ParseAmount(A_1c5)),
             Value(T_A, "Eda", Day2, ParseAmount(A_1c5)),
             Value(T_a, "Transport", Day1, Inf(1)),
             Value(T_A, "Transport", Day2, Inf(1)),
             Value(T_b_padded, "Eda", <<>>, JsNull)}
Filters == {All, "Eda", "Transport", "Drugoe"}

InitView == \E coll \in Collections(ViewPool, MaxRows) : Loaded(coll)

NextView ==
    \/ ToggleCatMenu
    \/ ToggleSortMenu
    \/ \E f \in Filters : SetFilterCategory(f)
    \/ \E k \in SortKeys : SetSortKey(k)
    \/ ToggleSortDir
    \/ ClickElsewhere

SpecView == InitView /\ [][NextView]_vars

\* --------------------------------------------------------- the row editor
EditPool == {Value(T_a, "Eda", Day1, ParseAmount(A_1c5)),
             Value(T_a, "Transport", Day1, ParseAmount(A_1c5))}

InitEdit == \E coll \in Collections(EditPool, MaxIds) : Loaded(coll)

NextEdit ==
    \/ \E id \in DOMAIN local : IsViewing(id) /\ StartEdit(id)
    \/ \E id \in DOMAIN local : EditDescription(id, <<>>)
    \/ \E id \in DOMAIN local : EditCategory(id, "Transport")
    \/ \E id \in DOMAIN local : EditDate(id, Day2)
    \/ \E id \in DOMAIN local : EditAmount(id, A_abc)
    \/ \E id \in DOMAIN local : KeyDownEnter(id)
    \/ \E id \in DOMAIN local : MouseDownOutside(id)
    \/ \E id \in DOMAIN local : IsViewing(id) /\ HandleDelete(id)
    \/ ToggleCatMenu
    \/ \E f \in {All, "Eda"} : SetFilterCategory(f)

SpecEdit == InitEdit /\ [][NextEdit]_vars

\* ================================================================ claims
Cent == Unit \div 100

\* x > 0 on a number
GtZero(x) == \/ x.k = "fin" /\ x.v > 0
             \/ x.k = "inf" /\ x.v > 0

\* r is x rounded to two decimal places, halves upwards
RoundedTo2(x, r) ==
    IF x.k = "fin"
    THEN /\ r.k = "fin"
         /\ r.v % Cent = 0
         /\ 2 * (r.v - x.v) <= Cent
         /\ 2 * (x.v - r.v) < Cent
    ELSE r = x

ValidInput ==
    /\ Trim(description) # <<>>
    /\ date # <<>>
    /\ GtZero(ParseAmount(amount))

InvalidInput ==
    \/ \A i \in 1..Len(description) : description[i] \in WhiteSpace
    \/ date = <<>>
    \/ IsNaN(ParseAmount(amount))
    \/ LeqZero(ParseAmount(amount))

\* C1: an add whose description is non-empty after trimming, whose date is
\* non-empty and whose amount parses to a positive number puts exactly one new
\* record in front of the unchanged previous collection; the record carries
\* the trimmed description, the selected category, the date and the parsed
\* amount rounded to two decimal places.
C1_AddPrepends ==
    [][(last'.op = "add" /\ ValidInput) =>
        /\ Len(expenses') = Len(expenses) + 1
        /\ \A i \in 1..Len(expenses) : expenses'[i + 1] = expenses[i]
        /\ \A i \in 1..Len(expenses) : expenses[i].id # expenses'[1].id
        /\ expenses'[1].description = Trim(description)
        /\ expenses'[1].category = category
        /\ expenses'[1].date = date
        /\ RoundedTo2(ParseAmount(amount), expenses'[1].amount)]_vars

C1_Witness ==
    /\ last.op = "add"
    /\ Len(expenses) = 2
    /\ expenses[1].description = <<"b">>
    /\ expenses[1].category = "Transport"
    /\ expenses[1].amount = Fin(1995 * (Unit \div 10))
    /\ description = <<>>

\* C2: an add whose amount is unparseable or not positive, whose description
\* is empty or whitespace only, or whose date is empty leaves the collection
\* unchanged and the four form fields as the user filled them.
C2_AddRejects ==
    [][(last'.op = "add" /\ InvalidInput) =>
        /\ expenses' = expenses
        /\ description' = description
        /\ category' = category
        /\ date' = date
        /\ amount' = amount]_vars

C2_Witness ==
    /\ last.op = "add"
    /\ amount = A_abc
    /\ description = T_b_padded
    /\ category = "Transport"
    /\ Len(expenses) = 1

\* C10: every record created by add has a stored amount strictly greater
\* than zero.
C10_StoredAmountPositive ==
    \A i \in 1..Len(expenses) : GtZero(expenses[i].amount)

RemoveAt(s, i) == [j \in 1..(Len(s) - 1) |-> IF j < i THEN s[j] ELSE s[j + 1]]

\* C3: deleting an id that is not present leaves the collection unchanged;
\* deleting one that is present removes exactly that record and leaves the
\* others as they were, in their order.
C3_DeleteExact ==
    [][last'.op = "delete" =>
        IF Has(expenses, last'.id)
        THEN \E i \in 1..Len(expenses) :
                /\ expenses[i].id = last'.id
                /\ expenses' = RemoveAt(expenses, i)
        ELSE expenses' = expenses]_vars

C3_Witness ==
    /\ last.op = "delete"
    /\ last.id = 2
    /\ Len(expenses) = 2
    /\ expenses[1].id = 3
    /\ expenses[2].id = 1

\* C4: saving a full record R replaces the stored record with R's id by R as
\* a whole, at the same position, leaves the other records and the size
\* unchanged, and changes nothing when no record has R's id.
C4_SaveReplaces ==
    [][last'.op = "save" =>
        LET R == last'.rec[1]
        IN  /\ Len(expenses') = Len(expenses)
            /\ \A i \in 1..Len(expenses) :
                  expenses'[i] = IF expenses[i].id = R.id THEN R ELSE expenses[i]
            /\ ~Has(expenses, R.id) => expenses' = expenses]_vars

C4_Witness ==
    /\ last.op = "save"
    /\ Len(expenses) = 2
    /\ expenses[2] = last.rec[1]
    /\ expenses[2].description = <<>>
    /\ expenses[2].category = "Drugoe"
    /\ expenses[2].amount = Fin(0)
    /\ expenses[1].date = Day1

Matches(e) == filterCategory = All \/ e.category = filterCategory
PosIn(coll, e) == CHOOSE i \in 1..Len(coll) : coll[i] = e

\* The comparator of the selected key, negated when the direction is descending
Selected(a, b) ==
    LET c == Comparator(a, b, sortKey, "asc")
    IN  SortOrder(IF sortDir = "asc" THEN c ELSE Negate(c))

ViewCorrect ==
    /\ \A j \in 1..Len(filteredSorted) :
          /\ Matches(filteredSorted[j])
          /\ \E i \in 1..Len(expenses) : expenses[i] = filteredSorted[j]
    /\ \A i \in 1..Len(expenses) :
          Matches(expenses[i]) =>
              Cardinality({j \in 1..Len(filteredSorted) : filteredSorted[j] = expenses[i]}) = 1
    /\ \A j, k \in 1..Len(filteredSorted) :
          j < k =>
              /\ Selected(filteredSorted[j], filteredSorted[k]) <= 0
              /\ Selected(filteredSorted[j], filteredSorted[k]) = 0 =>
                    PosIn(expenses, filteredSorted[j]) < PosIn(expenses, filteredSorted[k])

SelectOps == {"setFilterCategory", "setSortKey", "toggleSortDir"}

\* C5: the projection holds exactly the records that match the filter (all
\* of them under the sentinel), each once, ordered by the selected comparator
\* (negated when descending), records that tie in the order of the
\* collection; computing it leaves the collection unchanged.
C5_Projection ==
    /\ []ViewCorrect
    /\ [][last'.op \in SelectOps => expenses' = expenses]_vars

C5_Witness ==
    /\ last.op = "toggleSortDir"
    /\ sortKey = "amount"
    /\ sortDir = "asc"
    /\ filterCategory = "Eda"
    /\ Len(expenses) = 3
    /\ Len(filteredSorted) = 2
    /\ Selected(filteredSorted[1], filteredSorted[2]) = 0
    /\ filteredSorted[1].date # filteredSorted[2].date

UiOps == {"change", "setCategory", "startEdit", "editDescription", "editCategory",
          "editDate", "editAmount", "toggleCatMenu", "toggleSortMenu",
          "setFilterCategory", "setSortKey", "toggleSortDir", "click"}

\* C6: once an event is fully processed the slot holds the serialization of
\* the whole in-memory collection, so no add, save or delete is left
\* unpersisted; changes of filter, sort, edit mode or menus alter neither
\* the collection nor the slot.
C6_Persisted ==
    /\ [](pc = "ready" => storage = Serialize(expenses))
    /\ [][last'.op \in UiOps => (expenses' = expenses /\ storage' = storage)]_vars

C6_Witness ==
    /\ last.op = "delete"
    /\ pc = "ready"
    /\ expenses = <<>>
    /\ storage = Json(<<>>)
    /\ nextId = MaxIds + 1

\* C7: when startup has completed, the collection equals, element by
\* element, the collection the previous run persisted; it is empty when the
\* slot was missing or did not parse.
C7_RoundTrip ==
    (pc = "ready" /\ last.op \in {"loadedWrite", "settle"}) =>
        IF boot.slot.k = "json" THEN expenses = boot.coll ELSE expenses = <<>>

\* C9: from the start of the process on a slot holding a non-empty
\* collection until the first mutation, through each step of the startup, the
\* slot keeps that content.
C9_SlotKept ==
    (boot.slot.k = "json" /\ boot.slot.v # <<>>) => storage = boot.slot

\* C8: whenever a row leaves Editing, editingId is cleared and the stored
\* record with the row's id equals the row's working copy.
C8_ExitCommits ==
    [][\A id \in DOMAIN local :
         (IsEditing(id) /\ ~(editingId' = id /\ id \in DOMAIN local')) =>
            /\ editingId' = NoId
            /\ \E i \in 1..Len(expenses') : expenses'[i] = local[id]]_vars
====
